---- MODULE Spec2Model ----
(***************************************************************************)
(* Campaign send pipeline of MarketingMailPro: EmailService.sendCampaign,  *)
(* trackEmailOpen, trackEmailClick and processUnsubscribe, and             *)
(* Storage.createContact (src/server/storage.ts), the routes               *)
(* POST /api/contacts, POST /api/campaigns and PATCH /api/campaigns/:id    *)
(* (src/server/routes.ts) and the tables they touch (schema at the end of  *)
(* src/server/routes.ts).                                                  *)
(*                                                                         *)
(* Every `await` of the code is one step of the model, so that requests    *)
(* interleave exactly where the Node event loop lets them interleave.      *)
(***************************************************************************)
EXTENDS Integers, Sequences, FiniteSets, TLC

\* ------------------------------------------------------------------ bounds
MaxContacts == 2
MaxMemberRows == 2
MaxLists == 2
MaxCampaigns == 1
MaxRuns == 1
MaxPatches == 1
MaxCalls == 2
MaxBodyTokens == 2
MaxRecipients == 2

ContactIds == 1..MaxContacts
ListIds == 1..MaxLists
RunIds == 1..MaxRuns
CallIds == 1..MaxCalls
\* ids a caller may pass to sendCampaign: the ids the serial can have
\* issued, and one more that never resolves
CallableIds == 1..(MaxCampaigns + 1)

\* ------------------------------------------------------- schema enumerations
ContactStatus == {"active", "unsubscribed", "bounced"}
CampaignStatus == {"draft", "scheduled", "sending", "sent", "failed"}
\* req.body.scheduleType: "now", "later", or anything else (here "none")
ScheduleTypes == {"now", "later", "none"}

\* messages of the errors the collaborators raise
TransportErrors == {"Mailbox unavailable"}
DbError == "connection terminated"

ContactEmail(c) == IF c = 1 THEN "a@x.com" ELSE IF c = 2 THEN "b@x.com" ELSE "c@x.com"

NoRow == [absent |-> TRUE]
NoMeta == [none |-> TRUE]
NoMail == [pc |-> "idle"]
NoResult == [pending |-> TRUE]
Raised(msg) == [raised |-> msg]

SettingsRows == {NoRow, [smtpHost |-> ""], [smtpHost |-> "smtp.example.com"]}

VARIABLES
    contacts,                \* table contacts: Seq of [email, status], id = index
    contactListMemberships,  \* table contact_list_memberships: Seq of [contactId, listId]
    settings,                \* the settings row of user 1, or NoRow
    campaigns,               \* table campaigns: Seq of rows, id = index
    campaignEvents,          \* table campaign_events: Seq of rows, id = index
    run,                     \* the sendCampaign invocations, by invocation number
    patch,                   \* the PATCH /api/campaigns/:id request in flight
    patches,                 \* PATCH requests served so far
    calls,                   \* the trackEmailOpen, trackEmailClick and
                             \* processUnsubscribe calls, by call number
    creating,                \* the POST /api/contacts request in flight
    mail                     \* the content sendCampaign builds for one run

vars == <<contacts, contactListMemberships, settings, campaigns, campaignEvents,
          run, patch, patches, calls, creating, mail>>

db == <<contacts, contactListMemberships, settings, campaigns, campaignEvents>>

\* ------------------------------------------------------------------ helpers
RECURSIVE SeqsUpTo(_, _)
SeqsUpTo(S, n) ==
    IF n = 0 THEN {<<>>}
    ELSE LET shorter == SeqsUpTo(S, n - 1)
         IN shorter \cup {Append(s, x) : s \in {t \in shorter : Len(t) = n - 1}, x \in S}

RECURSIVE JoinedRows(_, _, _)
\* innerJoin(contactListMemberships, ...).where(listId = ... and status in
\* statuses): the membership rows from row i on that match, in table order
JoinedRows(listId, statuses, i) ==
    IF i > Len(contactListMemberships) THEN <<>>
    ELSE IF /\ contactListMemberships[i].listId = listId
            /\ contacts[contactListMemberships[i].contactId].status \in statuses
         THEN <<contactListMemberships[i].contactId>> \o JoinedRows(listId, statuses, i + 1)
         ELSE JoinedRows(listId, statuses, i + 1)

\* an invocation slot that has not been used yet
IdleRun == [pc |-> "idle", campaignId |-> 0, listId |-> 0, contactsInList |-> <<>>,
            i |-> 0, error |-> "", result |-> NoResult,
            viaPost |-> FALSE,      \* awaited by the POST /api/campaigns handler
            response |-> 0,         \* the status code that handler answered with
            \* history of the invocation, not program state:
            attempts |-> <<>>,      \* the transporter.sendMail calls it made
            resolved |-> FALSE,     \* the recipients query has returned
            eligible |-> {},        \* the active members of its list at that moment
            setSending |-> FALSE,   \* its update to status 'sending' is done
            escaped |-> "",         \* where an error left the per-recipient try
            atReturn |-> NoRow]     \* the campaign row when it returned

\* no PATCH request is in flight; response is the status code of the last one
IdlePatch == [pc |-> "idle", id |-> 0, listId |-> 0, scheduledAt |-> FALSE, response |-> 0]

\* no POST /api/contacts request is in flight
IdleCreate == [pc |-> "idle", contactId |-> 0, listIds |-> <<>>]

\* a call slot that has not been used yet.  contactId is the contactId
\* argument of the tracking calls and the contact processUnsubscribe found.
IdleCall == [op |-> "none", pc |-> "idle", campaignId |-> 0, contactId |-> 0,
             email |-> "", url |-> "", result |-> NoResult,
             \* history of the call, not program state:
             rejected |-> FALSE]   \* an insert of it was rejected and caught

\* ----------------------------------------------------------------- storage
\* db.query.campaigns.findFirst({ where: eq(campaigns.id, campaignId) })
FindCampaign(id) == IF id \in 1..Len(campaigns) THEN campaigns[id] ELSE NoRow

\* faulty variant of ContactsInList: the query without its status condition
ContactsInList_AnyStatus(listId) == JoinedRows(listId, ContactStatus, 1)

\* the recipients query of sendCampaign: one result row per membership row of
\* the list whose contact is active, in table order
ContactsInList(listId) == JoinedRows(listId, {"active"}, 1)

\* the contacts with a membership row in the list and status active
ActiveMembers(listId) ==
    {c \in DOMAIN contacts :
        /\ contacts[c].status = "active"
        /\ \E k \in DOMAIN contactListMemberships :
              contactListMemberships[k] = [contactId |-> c, listId |-> listId]}

\* db.update(campaigns).set(fields).where(eq(campaigns.id, id)): no row, no
\* change.  had is history, not a column: the statuses the row has held.
UpdateCampaignRow(id, fields) ==
    IF id \in 1..Len(campaigns)
    THEN [campaigns EXCEPT ![id] = [f \in DOMAIN campaigns[id] |->
              IF f \in DOMAIN fields THEN fields[f]
              ELSE IF f = "had" /\ "status" \in DOMAIN fields
                   THEN campaigns[id].had \cup {fields.status}
                   ELSE campaigns[id][f]]]
    ELSE campaigns

\* db.insert(campaignEvents).values(...)
InsertEvent(campaignId, contactId, eventType, metadata, r) ==
    Append(campaignEvents, [campaignId |-> campaignId, contactId |-> contactId,
                            eventType |-> eventType, metadata |-> metadata,
                            run |-> r, call |-> 0])

\* -------------------------------------------------------------------- Init
\* The tables hold what db/seed.ts or earlier requests left there: contacts of
\* any status, membership rows in any order (repeated rows included, the table
\* has no unique constraint), any settings row.  No campaign exists yet.
Init ==
    /\ contacts \in {t \in [ContactIds -> [email : {ContactEmail(c) : c \in ContactIds},
                                            status : ContactStatus]] :
                         \A c \in ContactIds : t[c].email = ContactEmail(c)}
    /\ contactListMemberships \in
           SeqsUpTo({[contactId |-> c, listId |-> l] : c \in ContactIds, l \in ListIds},
                    MaxMemberRows)
    /\ settings \in SettingsRows
    /\ campaigns = <<>>
    /\ campaignEvents = <<>>
    /\ run = [p \in RunIds |-> IdleRun]
    /\ patch = IdlePatch
    /\ patches = 0
    /\ calls = [k \in CallIds |-> IdleCall]
    /\ creating = IdleCreate
    /\ mail = NoMail

\* ------------------------------------------------- Storage (campaign rows)
\* Storage.createCampaign: status from scheduledAt, a fresh serial id
NewCampaignRow(listId, scheduledAt) ==
    [listId |-> listId,
     status |-> IF scheduledAt THEN "scheduled" ELSE "draft",
     scheduledAt |-> scheduledAt,
     sentAt |-> 0,
     had |-> {IF scheduledAt THEN "scheduled" ELSE "draft"}]

\* Storage.updateCampaign: rewrites the row, status included, whatever it was
UpdateCampaignFields(listId, scheduledAt) ==
    [listId |-> listId,
     status |-> IF scheduledAt THEN "scheduled" ELSE "draft",
     scheduledAt |-> scheduledAt]

\* p is the next invocation number, and the invocations before it have
\* returned: in these specifications sendCampaign is called again only after
\* the previous call ended (PATCH requests run concurrently with it)
FreeRun(p) == run[p].pc = "idle" /\ \A q \in RunIds : q < p => run[q].pc = "done"

StartRun(p, id) == [run EXCEPT ![p] = [IdleRun EXCEPT !.pc = "loadCampaign", !.campaignId = id]]

\* ------------------------------------------------- POST /api/campaigns
\* scheduleType other than "now": the campaign is stored and returned
PostCampaign(listId, scheduleType) ==
    /\ scheduleType # "now"
    /\ Len(campaigns) < MaxCampaigns
    /\ campaigns' = Append(campaigns, NewCampaignRow(listId, scheduleType = "later"))
    /\ UNCHANGED <<contacts, contactListMemberships, settings, campaignEvents, run, patch, patches, calls, creating, mail>>

\* scheduleType "now": the campaign is stored as a draft, then the handler
\* awaits emailService.sendCampaign(newCampaign.id)
PostCampaignNow(p, listId) ==
    /\ Len(campaigns) < MaxCampaigns
    /\ FreeRun(p)
    /\ campaigns' = Append(campaigns, NewCampaignRow(listId, FALSE))
    /\ run' = [StartRun(p, Len(campaigns) + 1) EXCEPT ![p].viaPost = TRUE]
    /\ UNCHANGED <<contacts, contactListMemberships, settings, campaignEvents, patch, patches, calls, creating, mail>>

\* emailService.sendCampaign(campaignId) called with any id
SendCampaign(p, id) ==
    /\ FreeRun(p)
    /\ run' = StartRun(p, id)
    /\ UNCHANGED <<db, patch, patches, calls, creating, mail>>

\* ------------------------------------------------- sendCampaign, step by step
\* routes.ts 286-291 and 292-298: the POST handler ignores the value
\* sendCampaign returns and answers 201 with the new campaign; only when
\* sendCampaign raises does its catch answer 500.  0: no POST is waiting.
PostResponse(p, r) ==
    IF ~run[p].viaPost THEN 0
    ELSE IF "raised" \in DOMAIN r THEN 500
    ELSE 201

\* sendCampaign returns r (its locals are gone); rows is the campaigns table then
Return(p, r, rows) ==
    [run EXCEPT ![p].pc = "done", ![p].result = r,
                ![p].response = PostResponse(p, r),
                ![p].i = 0, ![p].listId = 0, ![p].error = "",
                ![p].atReturn = IF run[p].campaignId \in 1..Len(rows)
                                THEN rows[run[p].campaignId] ELSE NoRow]

Success == [success |-> TRUE]
Failure(msg) == [success |-> FALSE, error |-> msg]

\* faulty variant of LoadCampaign: only a draft is sent
LoadCampaign_OnlyDrafts(p) ==
    /\ run[p].pc = "loadCampaign"
    /\ LET campaign == FindCampaign(run[p].campaignId)
       IN IF campaign = NoRow
          THEN run' = Return(p, Failure("Campaign not found"), campaigns)
          ELSE IF campaign.status # "draft"
          THEN run' = Return(p, Failure("Campaign is not a draft"), campaigns)
          ELSE run' = [run EXCEPT ![p].pc = "loadSettings", ![p].listId = campaign.listId]
    /\ UNCHANGED <<db, patch, patches, calls, creating, mail>>

\* faulty variant of LoadCampaign: a missing campaign is thrown as an error
LoadCampaign_ThrowsNotFound(p) ==
    /\ run[p].pc = "loadCampaign"
    /\ LET campaign == FindCampaign(run[p].campaignId)
       IN IF campaign = NoRow
          THEN run' = [run EXCEPT ![p].pc = "markFailed", ![p].error = "Campaign not found"]
          ELSE run' = [run EXCEPT ![p].pc = "loadSettings", ![p].listId = campaign.listId]
    /\ UNCHANGED <<db, patch, patches, calls, creating, mail>>

\* lines 1339-1348
LoadCampaign(p) ==
    /\ run[p].pc = "loadCampaign"
    /\ LET campaign == FindCampaign(run[p].campaignId)
       IN IF campaign = NoRow
          THEN run' = Return(p, Failure("Campaign not found"), campaigns)
          ELSE run' = [run EXCEPT ![p].pc = "loadSettings", ![p].listId = campaign.listId]
    /\ UNCHANGED <<db, patch, patches, calls, creating, mail>>

\* faulty variant of SmtpNotConfigured: only the missing row is checked
SmtpNotConfigured_RowOnly(row) == row = NoRow

\* !userSettings || !userSettings.smtpHost
SmtpNotConfigured(row) == row = NoRow \/ row.smtpHost = ""

\* lines 1351-1365
LoadSettings(p) ==
    /\ run[p].pc = "loadSettings"
    /\ IF SmtpNotConfigured(settings)
       THEN run' = Return(p, Failure("SMTP settings not configured"), campaigns)
       ELSE run' = [run EXCEPT ![p].pc = "resolve"]
    /\ UNCHANGED <<db, patch, patches, calls, creating, mail>>

\* faulty variant of ResolveRecipients: no short cut for an empty result
ResolveRecipients_NoShortCut(p) ==
    /\ run[p].pc = "resolve"
    /\ run' = [run EXCEPT ![p].contactsInList = ContactsInList(run[p].listId),
                          ![p].resolved = TRUE,
                          ![p].eligible = ActiveMembers(run[p].listId),
                          ![p].pc = "markSending"]
    /\ UNCHANGED <<db, patch, patches, calls, creating, mail>>

\* lines 1368-1385 and 1399: the query returns; with recipients the
\* transporter is built in the same tick and the next await is the update
ResolveRecipients(p) ==
    /\ run[p].pc = "resolve"
    /\ LET contactsInList == ContactsInList(run[p].listId)
       IN run' = [run EXCEPT ![p].contactsInList = contactsInList,
                             ![p].resolved = TRUE,
                             ![p].eligible = ActiveMembers(run[p].listId),
                             ![p].pc = IF Len(contactsInList) = 0 THEN "emptySent"
                                       ELSE "markSending"]
    /\ UNCHANGED <<db, patch, patches, calls, creating, mail>>

\* lines 1387-1395
EmptySent(p) ==
    /\ run[p].pc = "emptySent"
    /\ campaigns' = UpdateCampaignRow(run[p].campaignId, [status |-> "sent", sentAt |-> p])
    /\ run' = Return(p, Success, campaigns')
    /\ UNCHANGED <<contacts, contactListMemberships, settings, campaignEvents, patch, patches, calls, creating, mail>>

\* faulty variant of MarkSending: the loop starts without the status update
MarkSending_NoUpdate(p) ==
    /\ run[p].pc = "markSending"
    /\ run' = [run EXCEPT ![p].pc = "sendMail", ![p].i = 1]
    /\ UNCHANGED <<db, patch, patches, calls, creating, mail>>

\* lines 1402-1426
MarkSending(p) ==
    /\ run[p].pc = "markSending"
    /\ campaigns' = UpdateCampaignRow(run[p].campaignId, [status |-> "sending"])
    /\ run' = [run EXCEPT ![p].pc = "sendMail", ![p].i = 1, ![p].setSending = TRUE]
    /\ UNCHANGED <<contacts, contactListMemberships, settings, campaignEvents, patch, patches, calls, creating, mail>>

\* faulty variant of SendMail: a rejected sendMail is not caught per recipient
SendMail_AbortsOnFailure(p, outcome) ==
    /\ run[p].pc = "sendMail"
    /\ LET contact == run[p].contactsInList[run[p].i]
       IN run' = [run EXCEPT
              ![p].attempts = Append(@, [contactId |-> contact,
                                         to |-> contacts[contact].email,
                                         outcome |-> outcome]),
              ![p].error = IF outcome = "ok" THEN @ ELSE outcome,
              ![p].pc = IF outcome = "ok" THEN "recordSent" ELSE "markFailed"]
    /\ UNCHANGED <<db, patch, patches, calls, creating, mail>>

\* lines 1427-1449 and the entry of the catch at 1459: transporter.sendMail
\* resolves ("ok") or rejects with an error message
SendMail(p, outcome) ==
    /\ run[p].pc = "sendMail"
    /\ LET contact == run[p].contactsInList[run[p].i]
       IN run' = [run EXCEPT
              ![p].attempts = Append(@, [contactId |-> contact,
                                         to |-> contacts[contact].email,
                                         outcome |-> outcome]),
              ![p].error = IF outcome = "ok" THEN @ ELSE outcome,
              ![p].pc = IF outcome = "ok" THEN "recordSent" ELSE "recordBounce"]
    /\ UNCHANGED <<db, patch, patches, calls, creating, mail>>

\* the for-of loop moves on, or ends
NextRecipient(p) ==
    IF run[p].i < Len(run[p].contactsInList)
    THEN [run EXCEPT ![p].pc = "sendMail", ![p].i = @ + 1]
    ELSE [run EXCEPT ![p].pc = "markSent"]

\* lines 1452-1458
RecordSent(p) ==
    /\ run[p].pc = "recordSent"
    /\ campaignEvents' = InsertEvent(run[p].campaignId, run[p].contactsInList[run[p].i],
                                     "sent", NoMeta, p)
    /\ run' = NextRecipient(p)
    /\ UNCHANGED <<contacts, contactListMemberships, settings, campaigns, patch, patches, calls, creating, mail>>

\* lines 1459-1474
RecordBounce(p) ==
    /\ run[p].pc = "recordBounce"
    /\ campaignEvents' = InsertEvent(run[p].campaignId, run[p].contactsInList[run[p].i],
                                     "bounced",
                                     [reason |-> run[p].error, type |-> "soft"], p)
    /\ run' = NextRecipient(p)
    /\ UNCHANGED <<contacts, contactListMemberships, settings, campaigns, patch, patches, calls, creating, mail>>

\* lines 1478-1486
MarkSent(p) ==
    /\ run[p].pc = "markSent"
    /\ campaigns' = UpdateCampaignRow(run[p].campaignId, [status |-> "sent", sentAt |-> p])
    /\ run' = Return(p, Success, campaigns')
    /\ UNCHANGED <<contacts, contactListMemberships, settings, campaignEvents, patch, patches, calls, creating, mail>>

\* lines 1487-1502
MarkFailed(p) ==
    /\ run[p].pc = "markFailed"
    /\ campaigns' = UpdateCampaignRow(run[p].campaignId, [status |-> "failed"])
    /\ run' = Return(p, Failure(run[p].error), campaigns')
    /\ UNCHANGED <<contacts, contactListMemberships, settings, campaignEvents, patch, patches, calls, creating, mail>>

\* ------------------------------------------------- storage and transport faults
\* the awaits of sendCampaign that are storage calls
StorageCalls == {"loadCampaign", "loadSettings", "resolve", "emptySent", "markSending",
                 "recordSent", "recordBounce", "markSent", "markFailed"}

\* A storage call rejects.  Inside the per-recipient try (recordSent) the
\* error goes to the catch at 1459; anywhere else in the outer try it goes to
\* the catch at 1487; in that catch (markFailed) it leaves sendCampaign.
StorageFault(p) ==
    /\ run[p].pc \in StorageCalls
    /\ run' = CASE run[p].pc = "recordSent" ->
                     [run EXCEPT ![p].pc = "recordBounce", ![p].error = DbError]
                [] run[p].pc = "markFailed" ->
                     [Return(p, Raised(DbError), campaigns) EXCEPT ![p].escaped = "markFailed"]
                [] OTHER ->
                     [run EXCEPT ![p].pc = "markFailed", ![p].error = DbError,
                                 ![p].escaped = run[p].pc]
    /\ UNCHANGED <<db, patch, patches, calls, creating, mail>>

\* line 1399: nodemailer.createTransport throws, after the recipients query
\* returned a non-empty result
TransporterFault(p) ==
    /\ run[p].pc = "resolve"
    /\ LET contactsInList == ContactsInList(run[p].listId)
       IN /\ Len(contactsInList) > 0
          /\ run' = [run EXCEPT ![p].contactsInList = contactsInList,
                                ![p].resolved = TRUE,
                                ![p].eligible = ActiveMembers(run[p].listId),
                                ![p].pc = "markFailed",
                                ![p].error = "invalid transport options",
                                ![p].escaped = "getTransporter"]
    /\ UNCHANGED <<db, patch, patches, calls, creating, mail>>

\* ------------------------------------------------- PATCH /api/campaigns/:id
Respond(code) == [IdlePatch EXCEPT !.response = code]

\* faulty variant of PatchCheck: scheduled campaigns can be edited too
PatchCheck_EditsScheduled(id, listId, scheduledAt) ==
    /\ patch.pc = "idle"
    /\ patches < MaxPatches
    /\ LET campaign == FindCampaign(id)
       IN patch' = IF campaign = NoRow THEN [Respond(404) EXCEPT !.id = id]
                   ELSE IF campaign.status \notin {"draft", "scheduled"}
                        THEN [Respond(400) EXCEPT !.id = id]
                   ELSE [pc |-> "update", id |-> id, listId |-> listId,
                         scheduledAt |-> scheduledAt, response |-> 0]
    /\ patches' = patches + 1
    /\ UNCHANGED <<db, run, calls, creating, mail>>

\* lines 301-318: getCampaignById, 404 when absent, 400 unless draft;
\* scheduledAt is set when req.body.scheduleType is "later".  The answer
\* keeps the id the request named.
PatchCheck(id, listId, scheduledAt) ==
    /\ patch.pc = "idle"
    /\ patches < MaxPatches
    /\ LET campaign == FindCampaign(id)
       IN patch' = IF campaign = NoRow THEN [Respond(404) EXCEPT !.id = id]
                   ELSE IF campaign.status # "draft" THEN [Respond(400) EXCEPT !.id = id]
                   ELSE [pc |-> "update", id |-> id, listId |-> listId,
                         scheduledAt |-> scheduledAt, response |-> 0]
    /\ patches' = patches + 1
    /\ UNCHANGED <<db, run, calls, creating, mail>>

\* lines 320-326: storage.updateCampaign, a later storage step
PatchUpdate ==
    /\ patch.pc = "update"
    /\ campaigns' = UpdateCampaignRow(patch.id,
                        UpdateCampaignFields(patch.listId, patch.scheduledAt))
    /\ patch' = Respond(200)
    /\ UNCHANGED <<contacts, contactListMemberships, settings, campaignEvents, run, patches, calls, creating, mail>>

\* ------------------------------------------------- tracking and unsubscribe
\* arguments a caller may pass: the contact ids that can exist and one that
\* never does; the emails of those contacts and one that matches none; no
\* campaign id (0, which `if (campaignId)` takes as absent) or any callable id
TrackableContactIds == 1..(MaxContacts + 1)
Urls == {"https://a.example", "https://b.example"}
UnknownEmail == "nobody@x.com"
Emails == {ContactEmail(c) : c \in ContactIds} \cup {UnknownEmail}

\* faulty variant of ForeignKeysHold: contact_id carries no reference
ForeignKeysHold_CampaignOnly(campaignId, contactId) ==
    campaignId \in DOMAIN campaigns

\* campaign_events.campaign_id and .contact_id reference campaigns.id and
\* contacts.id: an insert naming a missing row is rejected
ForeignKeysHold(campaignId, contactId) ==
    campaignId \in DOMAIN campaigns /\ contactId \in DOMAIN contacts

\* faulty variant of InsertCallEvent: an event of the pair is overwritten
InsertCallEvent_Upsert(k, eventType, metadata) ==
    LET same == {e \in DOMAIN campaignEvents :
                    /\ campaignEvents[e].campaignId = calls[k].campaignId
                    /\ campaignEvents[e].contactId = calls[k].contactId}
        row == [campaignId |-> calls[k].campaignId, contactId |-> calls[k].contactId,
                eventType |-> eventType, metadata |-> metadata, run |-> 0, call |-> k]
    IN IF same = {} THEN Append(campaignEvents, row)
       ELSE [campaignEvents EXCEPT ![CHOOSE e \in same : TRUE] = row]

\* db.insert(campaignEvents).values(...) of call k
InsertCallEvent(k, eventType, metadata) ==
    Append(campaignEvents, [campaignId |-> calls[k].campaignId,
                            contactId |-> calls[k].contactId,
                            eventType |-> eventType, metadata |-> metadata,
                            run |-> 0, call |-> k])

\* the call returns r
CallReturn(k, r) == [calls EXCEPT ![k].pc = "done", ![k].result = r]

\* what a call resolves to: nothing (Promise<void>) or a boolean
Void == [void |-> TRUE]
Value(b) == [value |-> b]

\* faulty variant of FindOpened: the check looks for another event type
FindOpened_WrongType(campaignId, contactId) ==
    \E e \in DOMAIN campaignEvents :
        /\ campaignEvents[e].campaignId = campaignId
        /\ campaignEvents[e].contactId = contactId
        /\ campaignEvents[e].eventType = "clicked"

\* db.query.campaignEvents.findFirst({ where: campaignId, contactId, 'opened' })
FindOpened(campaignId, contactId) ==
    \E e \in DOMAIN campaignEvents :
        /\ campaignEvents[e].campaignId = campaignId
        /\ campaignEvents[e].contactId = contactId
        /\ campaignEvents[e].eventType = "opened"

\* lines 1505-1516: trackEmailOpen is called and its existence check returns
TrackEmailOpen(k, campaignId, contactId) ==
    /\ calls[k].pc = "idle"
    /\ LET started == [IdleCall EXCEPT !.op = "open", !.campaignId = campaignId,
                                       !.contactId = contactId]
       IN calls' = [calls EXCEPT ![k] =
              IF FindOpened(campaignId, contactId)
              THEN [started EXCEPT !.pc = "done", !.result = Void]
              ELSE [started EXCEPT !.pc = "insertOpened"]]
    /\ UNCHANGED <<db, run, patch, patches, creating, mail>>

\* lines 1517-1528: the insert, a later storage step; a rejected insert is
\* caught and logged
InsertOpened(k) ==
    /\ calls[k].pc = "insertOpened"
    /\ campaignEvents' = IF ForeignKeysHold(calls[k].campaignId, calls[k].contactId)
                         THEN InsertCallEvent(k, "opened", NoMeta)
                         ELSE campaignEvents
    /\ calls' = [CallReturn(k, Void) EXCEPT
                    ![k].rejected = ~ForeignKeysHold(calls[k].campaignId, calls[k].contactId)]
    /\ UNCHANGED <<contacts, contactListMemberships, settings, campaigns, run, patch, patches, creating, mail>>

\* faulty variant of TrackEmailClick: only the first click of a pair is recorded
TrackEmailClick_FirstOnly(k, campaignId, contactId, url) ==
    /\ calls[k].pc = "idle"
    /\ LET started == [IdleCall EXCEPT !.op = "click", !.campaignId = campaignId,
                                       !.contactId = contactId, !.url = url,
                                       !.pc = "done", !.result = Void,
                                       !.rejected = ~ForeignKeysHold(campaignId, contactId)]
           clicked == \E e \in DOMAIN campaignEvents :
                          /\ campaignEvents[e].campaignId = campaignId
                          /\ campaignEvents[e].contactId = contactId
                          /\ campaignEvents[e].eventType = "clicked"
       IN /\ calls' = [calls EXCEPT ![k] = started]
          /\ campaignEvents' =
                 IF ForeignKeysHold(campaignId, contactId) /\ ~clicked
                 THEN Append(campaignEvents,
                             [campaignId |-> campaignId, contactId |-> contactId,
                              eventType |-> "clicked", metadata |-> [url |-> url],
                              run |-> 0, call |-> k])
                 ELSE campaignEvents
    /\ UNCHANGED <<contacts, contactListMemberships, settings, campaigns, run, patch, patches, creating, mail>>

\* lines 1531-1544
TrackEmailClick(k, campaignId, contactId, url) ==
    /\ calls[k].pc = "idle"
    /\ LET started == [IdleCall EXCEPT !.op = "click", !.campaignId = campaignId,
                                       !.contactId = contactId, !.url = url,
                                       !.pc = "done", !.result = Void,
                                       !.rejected = ~ForeignKeysHold(campaignId, contactId)]
       IN /\ calls' = [calls EXCEPT ![k] = started]
          /\ campaignEvents' =
                 IF ForeignKeysHold(campaignId, contactId)
                 THEN Append(campaignEvents,
                             [campaignId |-> campaignId, contactId |-> contactId,
                              eventType |-> "clicked", metadata |-> [url |-> url],
                              run |-> 0, call |-> k])
                 ELSE campaignEvents
    /\ UNCHANGED <<contacts, contactListMemberships, settings, campaigns, run, patch, patches, creating, mail>>

\* faulty variant of FindContactByEmail: without a match the first row is taken
FindContactByEmail_FirstRow(email) ==
    LET found == {c \in DOMAIN contacts : contacts[c].email = email}
    IN IF found = {} THEN 1 ELSE CHOOSE c \in found : \A d \in found : c <= d

\* db.query.contacts.findFirst({ where: eq(contacts.email, email) }): the
\* first row with that email, 0 when there is none
FindContactByEmail(email) ==
    LET found == {c \in DOMAIN contacts : contacts[c].email = email}
    IN IF found = {} THEN 0 ELSE CHOOSE c \in found : \A d \in found : c <= d

\* lines 1546-1554: processUnsubscribe is called and its lookup returns
ProcessUnsubscribe(k, email, campaignId) ==
    /\ calls[k].pc = "idle"
    /\ LET contact == FindContactByEmail(email)
           started == [IdleCall EXCEPT !.op = "unsubscribe", !.email = email,
                                       !.campaignId = campaignId, !.contactId = contact]
       IN calls' = [calls EXCEPT ![k] =
              IF contact = 0
              THEN [started EXCEPT !.pc = "done", !.result = Value(FALSE)]
              ELSE [started EXCEPT !.pc = "updateContact"]]
    /\ UNCHANGED <<db, run, patch, patches, creating, mail>>

\* lines 1556-1562 and 1573: the status update; without a campaign id the
\* call returns true
UpdateContact(k) ==
    /\ calls[k].pc = "updateContact"
    /\ contacts' = [contacts EXCEPT ![calls[k].contactId].status = "unsubscribed"]
    /\ calls' = IF calls[k].campaignId # 0
                THEN [calls EXCEPT ![k].pc = "insertUnsubscribed"]
                ELSE CallReturn(k, Value(TRUE))
    /\ UNCHANGED <<contactListMemberships, settings, campaigns, campaignEvents,
                   run, patch, patches, creating, mail>>

\* lines 1565-1579: the event insert; when it is rejected the catch returns
\* false
InsertUnsubscribed(k) ==
    /\ calls[k].pc = "insertUnsubscribed"
    /\ IF ForeignKeysHold(calls[k].campaignId, calls[k].contactId)
       THEN /\ campaignEvents' = InsertCallEvent(k, "unsubscribed", NoMeta)
            /\ calls' = CallReturn(k, Value(TRUE))
       ELSE /\ campaignEvents' = campaignEvents
            /\ calls' = [CallReturn(k, Value(FALSE)) EXCEPT ![k].rejected = TRUE]
    /\ UNCHANGED <<contacts, contactListMemberships, settings, campaigns, run, patch, patches, creating, mail>>

\* ------------------------------------------------- POST /api/contacts
\* storage.ts 170-183: Storage.createContact inserts the contact, status
\* 'active', with a fresh serial id; without listIds it returns
CreateContact(email, listIds) ==
    /\ creating.pc = "idle"
    /\ Len(contacts) < MaxContacts
    /\ Len(contactListMemberships) + Len(listIds) <= MaxMemberRows
    /\ contacts' = Append(contacts, [email |-> email, status |-> "active"])
    /\ creating' = IF listIds = <<>> THEN IdleCreate
                   ELSE [pc |-> "insertMemberships", contactId |-> Len(contacts) + 1,
                         listIds |-> listIds]
    /\ UNCHANGED <<contactListMemberships, settings, campaigns, campaignEvents,
                   run, patch, patches, calls, mail>>

\* storage.ts 185-193: one membership row per element of listIds, repeated
\* ids included, in a later storage step
InsertMemberships ==
    /\ creating.pc = "insertMemberships"
    /\ contactListMemberships' = contactListMemberships \o
           [k \in 1..Len(creating.listIds) |->
               [contactId |-> creating.contactId, listId |-> creating.listIds[k]]]
    /\ creating' = IdleCreate
    /\ UNCHANGED <<contacts, settings, campaigns, campaignEvents, run, patch, patches, calls, mail>>

\* ------------------------------------------------- message content
\* Content is a sequence of pieces; a piece is a literal text, or a text with
\* the values interpolated into it.
Lit(text) == [text |-> text, email |-> "", contactId |-> 0, campaignId |-> 0]

Placeholder == Lit("[[UNSUBSCRIBE_LINK]]")

\* the pieces /\[name\]/gi matches
NameTokens == {Lit("[name]"), Lit("[NAME]")}

\* encodeURIComponent on the addresses of the model: '@' becomes '%40'
EncodeURIComponent(email) ==
    CASE email = "a@x.com" -> "a%40x.com"
      [] email = "b@x.com" -> "b%40x.com"
      [] OTHER -> "c%40x.com"

\* storage.ts 1438: the unsubscribe URL of one recipient
UnsubscribeUrl(email, campaignId) ==
    [text |-> "https://yourdomain.com/unsubscribe?email=&campaignId=",
     email |-> EncodeURIComponent(email), contactId |-> 0, campaignId |-> campaignId]

\* storage.ts 1432: the tracking pixel of one recipient
TrackingPixel(contactId, campaignId) ==
    [text |-> "<img src=[[TRACKING_PIXEL_URL]]&contactId=&campaignId=>",
     email |-> "", contactId |-> contactId, campaignId |-> campaignId]

\* storage.ts 1412-1414: the block appended when includeUnsubscribeLink is set
UnsubscribeLink ==
    <<Lit("<div><p>If you no longer wish to receive these emails, you can <a href="),
      Placeholder,
      Lit(">unsubscribe here</a>.</p></div>")>>

\* storage.ts 1410-1423: campaign.content, then the unsubscribe block if the
\* flag is set, then the footer if the settings have one (null and '' are
\* both falsy)
BaseContent(body, includeUnsubscribeLink, defaultFooter) ==
    body \o (IF includeUnsubscribeLink THEN UnsubscribeLink ELSE <<>>)
         \o (IF defaultFooter # <<>>
             THEN <<Lit("<div>")>> \o defaultFooter \o <<Lit("</div>")>>
             ELSE <<>>)

\* contact.name || 'there': null and '' give the fallback
NameOrThere(name) == IF name = <<>> THEN <<Lit("there")>> ELSE name

\* String.prototype.replace with a string as replacement: in the replacement
\* '$&' stands for the matched text and '$$' for one '$'
RECURSIVE GetSubstitution(_, _)
GetSubstitution(replacement, matched) ==
    IF replacement = <<>> THEN <<>>
    ELSE (CASE Head(replacement) = Lit("$&") -> <<matched>>
            [] Head(replacement) = Lit("$$") -> <<Lit("$")>>
            [] OTHER -> <<Head(replacement)>>)
         \o GetSubstitution(Tail(replacement), matched)

\* storage.ts 1428: content.replace(/\[name\]/gi, replacement) replaces every
\* match; the text inserted is not searched again
RECURSIVE ReplaceNames(_, _)
ReplaceNames(content, replacement) ==
    IF content = <<>> THEN <<>>
    ELSE (IF Head(content) \in NameTokens
          THEN GetSubstitution(replacement, Head(content))
          ELSE <<Head(content)>>)
         \o ReplaceNames(Tail(content), replacement)

\* storage.ts 1436-1439: content.replace(string, replacement) replaces the
\* first occurrence only
RECURSIVE ReplaceFirst(_, _, _)
ReplaceFirst(content, pattern, replacement) ==
    IF content = <<>> THEN <<>>
    ELSE IF Head(content) = pattern
         THEN GetSubstitution(replacement, pattern) \o Tail(content)
         ELSE <<Head(content)>> \o ReplaceFirst(Tail(content), pattern, replacement)

\* storage.ts 1428: the content of one recipient after the name replacement
NamedContent(content, contact) == ReplaceNames(content, NameOrThere(contact.name))

\* storage.ts 1428-1439: the html of one recipient
PersonalizedContent(content, contact, campaignId) ==
    ReplaceFirst(NamedContent(content, contact)
                     \o <<TrackingPixel(contact.id, campaignId)>>,
                 Placeholder,
                 <<UnsubscribeUrl(contact.email, campaignId)>>)

\* campaign bodies, contact names and footers of the inputs
BodyTokens == {Lit("Hello"), Placeholder} \cup NameTokens
Bodies == SeqsUpTo(BodyTokens, MaxBodyTokens)
Names == {<<>>, <<Lit("Ann")>>, <<Placeholder>>, <<Lit("$&")>>, <<Lit("$$")>>}
Footers == {<<>>, <<Lit("Bye")>>, <<Lit("[NAME]")>>}

\* the recipients resolved: recipient i is contact i
Recipients ==
    {[i \in 1..Len(names) |-> [id |-> i, name |-> names[i], email |-> ContactEmail(i)]] :
        names \in SeqsUpTo(Names, MaxRecipients) \ {<<>>}}

\* the campaign, the settings and the recipients of one run
MailInputs ==
    [pc : {"compose"}, campaignId : CallableIds, body : Bodies,
     includeUnsubscribeLink : BOOLEAN, defaultFooter : Footers,
     contactsInList : Recipients, content : {<<>>}, i : {1},
     named : {<<>>}, html : {<<>>}]

\* storage.ts 1409-1423: the base content, built before the loop
ComposeContent ==
    /\ mail.pc = "compose"
    /\ mail' = [mail EXCEPT
                  !.pc = "personalize",
                  !.content = BaseContent(mail.body, mail.includeUnsubscribeLink,
                                          mail.defaultFooter)]
    /\ UNCHANGED <<db, run, patch, patches, calls, creating>>

\* storage.ts 1426-1449: the html handed to transporter.sendMail for the next
\* recipient; named keeps the content as it was after the name replacement
PersonalizeContent ==
    /\ mail.pc = "personalize"
    /\ mail.i <= Len(mail.contactsInList)
    /\ mail' = [mail EXCEPT
                  !.named = Append(@, NamedContent(mail.content,
                                                   mail.contactsInList[mail.i])),
                  !.html = Append(@, PersonalizedContent(mail.content,
                                                         mail.contactsInList[mail.i],
                                                         mail.campaignId)),
                  !.i = @ + 1]
    /\ UNCHANGED <<db, run, patch, patches, calls, creating>>

\* ------------------------------------------------- getCampaigns
\* storage.ts 454-470: count of the events of one type of a campaign
EventCount(campaignId, eventType) ==
    Cardinality({e \in DOMAIN campaignEvents :
                    /\ campaignEvents[e].campaignId = campaignId
                    /\ campaignEvents[e].eventType = eventType})

\* storage.ts 452, 472: an open rate is computed for a sent campaign with at
\* least one 'sent' event; otherwise openRate stays null
HasOpenRate(campaignId) ==
    /\ campaigns[campaignId].status = "sent"
    /\ EventCount(campaignId, "sent") > 0

\* storage.ts 473: Math.round(opened / sent * 100), halves rounded up
OpenRate(campaignId) ==
    (200 * EventCount(campaignId, "opened") + EventCount(campaignId, "sent"))
        \div (2 * EventCount(campaignId, "sent"))

\* ------------------------------------------------- specifications
RunStep(p) ==
    \/ LoadCampaign(p)
    \/ LoadSettings(p)
    \/ ResolveRecipients(p)
    \/ EmptySent(p)
    \/ MarkSending(p)
    \/ \E outcome \in {"ok"} \cup TransportErrors : SendMail(p, outcome)
    \/ RecordSent(p)
    \/ RecordBounce(p)
    \/ MarkSent(p)

Next ==
    \/ \E l \in ListIds, st \in ScheduleTypes : PostCampaign(l, st)
    \/ \E p \in RunIds, l \in ListIds : PostCampaignNow(p, l)
    \/ \E p \in RunIds, id \in CallableIds : SendCampaign(p, id)
    \/ \E p \in RunIds : RunStep(p)
    \/ \E id \in CallableIds, l \in ListIds, later \in BOOLEAN : PatchCheck(id, l, later)
    \/ PatchUpdate

\* storage and transport construction never fail
Spec == Init /\ [][Next]_vars

\* the HTTP surface alone: sendCampaign runs only where a route calls it
NextHttp ==
    \/ \E l \in ListIds, st \in ScheduleTypes : PostCampaign(l, st)
    \/ \E p \in RunIds, l \in ListIds : PostCampaignNow(p, l)
    \/ \E p \in RunIds : RunStep(p)
    \/ \E id \in CallableIds, l \in ListIds, later \in BOOLEAN : PatchCheck(id, l, later)
    \/ PatchUpdate

SpecHttp == Init /\ [][NextHttp]_vars

NextFaults ==
    \/ Next
    \/ \E p \in RunIds : MarkFailed(p)
    \/ \E p \in RunIds : StorageFault(p)
    \/ \E p \in RunIds : TransporterFault(p)

\* any storage call, and the construction of the transporter, may fail
SpecFaults == Init /\ [][NextFaults]_vars

\* ---- tracking and unsubscribe calls, one after the other
\* the tables when only the tracking endpoints are exercised: any contacts,
\* no membership row, SMTP configured
InitCalls ==
    /\ Init
    /\ contactListMemberships = <<>>
    /\ settings = [smtpHost |-> "smtp.example.com"]

\* call k is made after every call before it has returned
AfterEarlierCalls(k) == \A j \in CallIds : j < k => calls[j].pc = "done"

\* call k is made after every call before it was made
InCallOrder(k) == \A j \in CallIds : j < k => calls[j].pc # "idle"

CallStart(k) ==
    \/ \E id \in CallableIds, c \in TrackableContactIds : TrackEmailOpen(k, id, c)
    \/ \E id \in CallableIds, c \in TrackableContactIds, url \in Urls :
           TrackEmailClick(k, id, c, url)
    \/ \E email \in Emails, id \in {0} \cup CallableIds : ProcessUnsubscribe(k, email, id)

CallStep(k) ==
    \/ InsertOpened(k)
    \/ UpdateContact(k)
    \/ InsertUnsubscribed(k)

NextCalls ==
    \/ \E l \in ListIds, st \in ScheduleTypes : PostCampaign(l, st)
    \/ \E k \in CallIds : AfterEarlierCalls(k) /\ CallStart(k)
    \/ \E k \in CallIds : CallStep(k)

SpecCalls == InitCalls /\ [][NextCalls]_vars

\* ---- the same calls, overlapping
NextCallsRace ==
    \/ \E l \in ListIds, st \in ScheduleTypes : PostCampaign(l, st)
    \/ \E k \in CallIds : InCallOrder(k) /\ CallStart(k)
    \/ \E k \in CallIds : CallStep(k)

SpecCallsRace == InitCalls /\ [][NextCallsRace]_vars

\* ---- sendCampaign called while another sendCampaign call is running
OverlapRunIds == 1..(MaxRuns + 1)

\* the tables of Init, and room for one invocation more
InitOverlap ==
    /\ contacts \in {t \in [ContactIds -> [email : {ContactEmail(c) : c \in ContactIds},
                                            status : ContactStatus]] :
                         \A c \in ContactIds : t[c].email = ContactEmail(c)}
    /\ contactListMemberships \in
           SeqsUpTo({[contactId |-> c, listId |-> l] : c \in ContactIds, l \in ListIds},
                    MaxMemberRows)
    /\ settings \in SettingsRows
    /\ campaigns = <<>>
    /\ campaignEvents = <<>>
    /\ run = [p \in OverlapRunIds |-> IdleRun]
    /\ patch = IdlePatch
    /\ patches = 0
    /\ calls = [k \in CallIds |-> IdleCall]
    /\ creating = IdleCreate
    /\ mail = NoMail

\* emailService.sendCampaign(campaignId), whatever the other invocations
\* are doing; invocations are numbered in the order they are made
SendCampaignMeanwhile(p, id) ==
    /\ run[p].pc = "idle"
    /\ \A q \in OverlapRunIds : q < p => run[q].pc # "idle"
    /\ run' = StartRun(p, id)
    /\ UNCHANGED <<db, patch, patches, calls, creating, mail>>

NextOverlap ==
    \/ \E l \in ListIds, st \in ScheduleTypes : PostCampaign(l, st)
    \/ \E p \in OverlapRunIds, id \in CallableIds : SendCampaignMeanwhile(p, id)
    \/ \E p \in OverlapRunIds : RunStep(p)

SpecOverlap == InitOverlap /\ [][NextOverlap]_vars

\* ---- every operation, from the empty database
InitEmpty ==
    /\ contacts = <<>>
    /\ contactListMemberships = <<>>
    /\ settings = [smtpHost |-> "smtp.example.com"]
    /\ campaigns = <<>>
    /\ campaignEvents = <<>>
    /\ run = [p \in RunIds |-> IdleRun]
    /\ patch = IdlePatch
    /\ patches = 0
    /\ calls = [k \in CallIds |-> IdleCall]
    /\ creating = IdleCreate
    /\ mail = NoMail

\* call k is the only tracking or unsubscribe call made
OnlyCall(k) == \A j \in CallIds \ {k} : calls[j].pc = "idle"

\* the routes, and one tracking or unsubscribe call, all interleaved
NextAll ==
    \/ NextHttp
    \/ \E email \in Emails \ {UnknownEmail}, listIds \in SeqsUpTo(ListIds, MaxMemberRows) :
           CreateContact(email, listIds)
    \/ InsertMemberships
    \/ \E k \in CallIds : InCallOrder(k) /\ OnlyCall(k) /\ CallStart(k)
    \/ \E k \in CallIds : CallStep(k)

SpecAll == InitEmpty /\ [][NextAll]_vars

\* ---- the content of one run, for every campaign body, settings and names
InitContent ==
    /\ contacts = <<>>
    /\ contactListMemberships = <<>>
    /\ settings = [smtpHost |-> "smtp.example.com"]
    /\ campaigns = <<>>
    /\ campaignEvents = <<>>
    /\ run = [p \in RunIds |-> IdleRun]
    /\ patch = IdlePatch
    /\ patches = 0
    /\ calls = [k \in CallIds |-> IdleCall]
    /\ creating = IdleCreate
    /\ mail \in MailInputs

NextContent ==
    \/ ComposeContent
    \/ PersonalizeContent

SpecContent == InitContent /\ [][NextContent]_vars

\* =================================================================== claims
\* the events run p recorded for contact c with event type t
EventsOf(p, c, t) ==
    {k \in DOMAIN campaignEvents :
        /\ campaignEvents[k].run = p
        /\ campaignEvents[k].contactId = c
        /\ campaignEvents[k].eventType = t}

\* the transporter.sendMail calls run p made to contact c
AttemptsTo(p, c) == {k \in DOMAIN run[p].attempts : run[p].attempts[k].contactId = c}

DeliveryEvents(p, c) == EventsOf(p, c, "sent") \cup EventsOf(p, c, "bounced")

Returned(p) == run[p].pc = "done"

\* C1: a run attempts delivery, and records 'sent' or 'bounced', only for
\* contacts that had a membership row in the list of the campaign it loaded
\* and status 'active' when it resolved its recipients; unsubscribed and
\* bounced contacts and contacts outside the list get neither.
C1_OnlyActiveListMembers ==
    \A p \in RunIds : \A c \in ContactIds :
        (AttemptsTo(p, c) # {} \/ DeliveryEvents(p, c) # {})
            => run[p].resolved /\ c \in run[p].eligible

\* the loop of a run has ended after a delivery to an active member of its
\* list, and a member of the same list that is unsubscribed or bounced got
\* nothing from it
C1_Witness ==
    \E p \in RunIds : \E c, d \in ContactIds :
        /\ run[p].pc = "markSent"
        /\ AttemptsTo(p, c) # {}
        /\ contacts[d].status \in {"unsubscribed", "bounced"}
        /\ \E k \in DOMAIN contactListMemberships :
               contactListMemberships[k] = [contactId |-> d, listId |-> run[p].listId]
        /\ AttemptsTo(p, d) = {} /\ DeliveryEvents(p, d) = {}

\* the deliveries of run p to contact c that succeeded / that failed
Delivered(p, c) == {k \in AttemptsTo(p, c) : run[p].attempts[k].outcome = "ok"}
Undelivered(p, c) == AttemptsTo(p, c) \ Delivered(p, c)

\* no delivery of run p is waiting for its event to be recorded
NoEventPending(p) == run[p].pc \notin {"recordSent", "recordBounce"}

\* C2: in one run, a recipient whose delivery succeeded has exactly one 'sent'
\* event and no 'bounced' event for (campaign, contact); a recipient whose
\* delivery failed has exactly one 'bounced' event, with reason = the failure
\* message and type = 'soft', and no 'sent' event.
C2_OneEventPerRecipient ==
    \A p \in RunIds : \A c \in ContactIds :
        NoEventPending(p) =>
            /\ Delivered(p, c) # {} =>
                   /\ Cardinality(EventsOf(p, c, "sent")) = 1
                   /\ EventsOf(p, c, "bounced") = {}
            /\ Undelivered(p, c) # {} =>
                   /\ Cardinality(EventsOf(p, c, "bounced")) = 1
                   /\ EventsOf(p, c, "sent") = {}
                   /\ \A k \in EventsOf(p, c, "bounced") : \A a \in Undelivered(p, c) :
                          campaignEvents[k].metadata =
                              [reason |-> run[p].attempts[a].outcome, type |-> "soft"]

\* C3: transport failures do not abort the send: when a run with recipients
\* has returned, every resolved recipient has had exactly one delivery attempt,
\* the result is success and the campaign is 'sent' with sentAt stamped.
C3_FailuresDoNotAbort ==
    \A p \in RunIds :
        (Returned(p) /\ run[p].resolved /\ run[p].eligible # {}) =>
            /\ \A c \in run[p].eligible : Cardinality(AttemptsTo(p, c)) = 1
            /\ run[p].result = Success
            /\ run[p].atReturn.status = "sent"
            /\ run[p].atReturn.sentAt # 0

\* C4: a run whose list has no active member makes no delivery attempt,
\* records no event, never sets or sees status 'sending', and, its storage
\* calls succeeding, returns success with the campaign 'sent' and sentAt
\* stamped by it.
C4_EmptyListIsSent ==
    \A p \in RunIds :
        (run[p].resolved /\ run[p].eligible = {}) =>
            /\ run[p].attempts = <<>>
            /\ \A k \in DOMAIN campaignEvents : campaignEvents[k].run # p
            /\ ~run[p].setSending
            /\ ~Returned(p) => campaigns[run[p].campaignId].status # "sending"
            /\ (Returned(p) /\ run[p].escaped = "") =>
                   /\ run[p].result = [success |-> TRUE]
                   /\ run[p].atReturn.status = "sent"
                   /\ run[p].atReturn.sentAt = p

\* a run has returned from a campaign whose list holds only a member that is
\* not active
C4_Witness ==
    \E p \in RunIds :
        /\ Returned(p) /\ run[p].resolved /\ run[p].eligible = {}
        /\ run[p].result = [success |-> TRUE]
        /\ Len(contactListMemberships) > 0
        /\ campaignEvents = <<>>

\* C5: a run sets the stored status to 'sending' before its first delivery
\* attempt and before any 'sent' or 'bounced' event of it exists; no attempt
\* is made for a campaign that has held no status but 'draft'.
C5_SendingBeforeFirstAttempt ==
    \A p \in RunIds :
        (run[p].attempts # <<>> \/ \E k \in DOMAIN campaignEvents : campaignEvents[k].run = p)
            => /\ run[p].setSending
               /\ "sending" \in campaigns[run[p].campaignId].had
               /\ campaigns[run[p].campaignId].had # {"draft"}

\* the status is 'sending', set by the run, and the first delivery attempt
\* has just been made: no event exists yet
C5_Witness ==
    \E p \in RunIds :
        /\ Len(run[p].attempts) = 1
        /\ campaignEvents = <<>>
        /\ campaigns[run[p].campaignId].status = "sending"

\* C6: a campaign has held status 'failed' only if an error left the
\* per-recipient try block of a run on it; a run no error escaped from never
\* reaches the outer catch and returns success or one of the two early
\* refusals, whatever its transport failures were.
C6_FailedOnlyOnEscape ==
    /\ \A id \in DOMAIN campaigns :
           "failed" \in campaigns[id].had =>
               \E p \in RunIds : run[p].campaignId = id /\ run[p].escaped # ""
    /\ \A p \in RunIds :
           run[p].escaped = "" =>
               /\ run[p].pc # "markFailed"
               /\ Returned(p) =>
                      run[p].result \in {[success |-> TRUE],
                                         [success |-> FALSE, error |-> "Campaign not found"],
                                         [success |-> FALSE,
                                          error |-> "SMTP settings not configured"]}
               /\ (Returned(p) /\ run[p].attempts # <<>>) => run[p].result = [success |-> TRUE]

\* a delivery of a run failed in the transport, its bounce was recorded, and
\* only the error of a later storage call, which left the per-recipient try,
\* made the campaign 'failed'
C6_Witness ==
    \E p \in RunIds :
        /\ Returned(p) /\ run[p].escaped = "markSent"
        /\ \A k \in DOMAIN run[p].attempts : run[p].attempts[k].outcome \in TransportErrors
        /\ Len(run[p].attempts) = Len(run[p].contactsInList)
        /\ \E c \in ContactIds : EventsOf(p, c, "bounced") # {}
        /\ run[p].atReturn.status = "failed"
        /\ run[p].result = [success |-> FALSE, error |-> DbError]

\* C7: when an error was raised outside the per-recipient try block, the run
\* returns success=false with the error message, not by raising, and the
\* campaign's stored status is then 'failed'.
C7_EscapedErrorMarksFailed ==
    \A p \in RunIds :
        (Returned(p) /\ run[p].escaped # "") =>
            /\ run[p].result \in {[success |-> FALSE, error |-> DbError],
                                  [success |-> FALSE, error |-> "invalid transport options"]}
            /\ run[p].atReturn # NoRow => run[p].atReturn.status = "failed"

\* C8: the step of sendCampaign that finds no campaign for its id returns
\* success=false with 'Campaign not found', has made no delivery attempt and
\* changes no campaign, contact or event row.
C8_CampaignNotFound ==
    [][\A p \in RunIds :
          (/\ run[p].pc = "loadCampaign"
           /\ run[p].campaignId \notin DOMAIN campaigns
           /\ run'[p] # run[p]
           /\ run'[p].escaped = "")
          => /\ run'[p].pc = "done"
             /\ run'[p].result = [success |-> FALSE, error |-> "Campaign not found"]
             /\ run'[p].attempts = <<>>
             /\ UNCHANGED <<campaigns, contacts, contactListMemberships, campaignEvents>>]_vars

\* sendCampaign has returned 'Campaign not found' while a campaign with
\* another id exists
C8_Witness ==
    \E p \in RunIds :
        /\ Returned(p)
        /\ run[p].result = [success |-> FALSE, error |-> "Campaign not found"]
        /\ Len(campaigns) > 0
        /\ run[p].campaignId \notin DOMAIN campaigns

\* C9: no step of sendCampaign up to the settings check changes a row, and
\* with no settings row or an empty SMTP host the check returns success=false
\* with no delivery attempt, no event, and the campaign as it was (status not
\* set to 'sending', 'sent' or 'failed', sentAt untouched).
C9_SmtpNotConfigured ==
    [][\A p \in RunIds :
          (/\ run[p].pc \in {"loadCampaign", "loadSettings"}
           /\ run'[p] # run[p]
           /\ run'[p].escaped = "")
          => /\ UNCHANGED <<campaigns, contacts, contactListMemberships, campaignEvents>>
             /\ run'[p].attempts = <<>>
             /\ ~run'[p].setSending
             /\ (run[p].pc = "loadSettings" /\ (settings = NoRow \/ settings.smtpHost = ""))
                    => /\ run'[p].pc = "done"
                       /\ run'[p].result.success = FALSE
                       /\ run'[p].atReturn = campaigns[run[p].campaignId]]_vars

\* sendCampaign has returned its refusal for a draft campaign whose owner's
\* settings row has an empty SMTP host, and the campaign is still a draft
\* that was never sent
C9_Witness ==
    \E p \in RunIds :
        /\ Returned(p)
        /\ run[p].result = [success |-> FALSE, error |-> "SMTP settings not configured"]
        /\ settings = [smtpHost |-> ""]
        /\ run[p].atReturn.status = "draft"
        /\ run[p].atReturn.sentAt = 0
        /\ campaignEvents = <<>>

\* C10: once a campaign has held status 'sending', 'sent' or 'failed', its
\* status is never 'draft' or 'scheduled' again.
C10_NoWayBackToDraft ==
    \A id \in DOMAIN campaigns :
        campaigns[id].had \cap {"sending", "sent", "failed"} # {}
            => campaigns[id].status \notin {"draft", "scheduled"}

\* C11: a PATCH request whose read of the campaign finds a status other than
\* 'draft' is answered 400 in that step, schedules no update and changes no
\* campaign row.
C11_NonDraftIsRejected ==
    [][\A id \in CallableIds :
          (/\ patches' # patches
           /\ patch'.id = id
           /\ FindCampaign(id) # NoRow
           /\ FindCampaign(id).status # "draft")
          => /\ patch'.pc = "idle"
             /\ patch'.response = 400
             /\ campaigns' = campaigns]_vars

\* a PATCH that arrived while the campaign was being sent was answered 400,
\* and the send then finished
C11_Witness ==
    /\ patch.pc = "idle" /\ patch.response = 400
    /\ patch.id \in DOMAIN campaigns
    /\ campaigns[patch.id].status = "sent"
    /\ "scheduled" \notin campaigns[patch.id].had
    /\ \E p \in RunIds : Returned(p) /\ run[p].attempts # <<>>

\* C12: when the sendCampaign run that POST /api/campaigns awaited ended in
\* a failure (success=false, or raised), the POST is answered with an error
\* status, not with 201.
C12_PostReportsSendFailure ==
    \A p \in RunIds :
        (Returned(p) /\ run[p].viaPost /\ run[p].result # [success |-> TRUE])
            => run[p].response >= 400

\* the events of a type recorded for (campaign, contact)
PairEvents(campaignId, contactId, t) ==
    {e \in DOMAIN campaignEvents :
        /\ campaignEvents[e].campaignId = campaignId
        /\ campaignEvents[e].contactId = contactId
        /\ campaignEvents[e].eventType = t}

\* the events call k inserted
EventsOfCall(k) == {e \in DOMAIN campaignEvents : campaignEvents[e].call = k}

\* call k has returned from operation op, no insert of it having been rejected
Completed(k, op) == calls[k].pc = "done" /\ calls[k].op = op /\ ~calls[k].rejected

SamePair(j, k) ==
    calls[j].campaignId = calls[k].campaignId /\ calls[j].contactId = calls[k].contactId

\* C13: with trackEmailOpen calls made one after the other, once a call for
\* (campaign, contact) has returned there is exactly one 'opened' event for
\* the pair, and a later call for the same pair has added no event.
C13_OpenIsIdempotent ==
    \A k \in CallIds :
        Completed(k, "open") =>
            /\ Cardinality(PairEvents(calls[k].campaignId, calls[k].contactId, "opened")) = 1
            /\ \A j \in CallIds :
                   (j < k /\ Completed(j, "open") /\ SamePair(j, k)) => EventsOfCall(k) = {}

\* two trackEmailOpen calls for one existing pair have returned, one after
\* the other, and the first one's event is the only event
C13_Witness ==
    \E j, k \in CallIds :
        /\ j < k /\ Completed(j, "open") /\ Completed(k, "open") /\ SamePair(j, k)
        /\ Len(campaignEvents) = 1
        /\ EventsOfCall(j) = {1}

\* C14: at most one 'opened' event per (campaign, contact), whatever the
\* interleaving of trackEmailOpen calls.
C14_OneOpenedPerPair ==
    \A id \in CallableIds : \A c \in TrackableContactIds :
        Cardinality(PairEvents(id, c, "opened")) <= 1

\* C15: every trackEmailClick call whose insert was accepted has added
\* exactly one event, a 'clicked' event for its pair carrying its URL, so the
\* 'clicked' events of a pair are as many as the calls made for it, equal
\* URLs included; the calls add no event of another type.
C15_ClicksAreNotDeduplicated ==
    /\ \A k \in CallIds :
           Completed(k, "click") =>
               /\ Cardinality(EventsOfCall(k)) = 1
               /\ \A e \in EventsOfCall(k) :
                      /\ campaignEvents[e].campaignId = calls[k].campaignId
                      /\ campaignEvents[e].contactId = calls[k].contactId
                      /\ campaignEvents[e].eventType = "clicked"
                      /\ campaignEvents[e].metadata = [url |-> calls[k].url]
    /\ \A id \in CallableIds : \A c \in TrackableContactIds :
           Cardinality(PairEvents(id, c, "clicked")) =
               Cardinality({k \in CallIds : /\ Completed(k, "click")
                                            /\ calls[k].campaignId = id
                                            /\ calls[k].contactId = c})

\* two calls for one pair with the same URL have left two 'clicked' events
\* and nothing else
C15_Witness ==
    \E j, k \in CallIds :
        /\ j < k /\ Completed(j, "click") /\ Completed(k, "click") /\ SamePair(j, k)
        /\ calls[j].url = calls[k].url
        /\ Len(campaignEvents) = 2
        /\ \A e \in DOMAIN campaignEvents : campaignEvents[e].eventType = "clicked"

\* C16: the processUnsubscribe call whose email matches no contact returns
\* false in its lookup step, with or without a campaign id, and changes no
\* contact row and no event.
C16_UnknownEmailChangesNothing ==
    [][\A k \in CallIds :
          (/\ calls[k].pc = "idle"
           /\ calls'[k].op = "unsubscribe"
           /\ \A c \in DOMAIN contacts : contacts[c].email # calls'[k].email)
          => /\ calls'[k].pc = "done"
             /\ calls'[k].result = Value(FALSE)
             /\ UNCHANGED <<contacts, campaignEvents>>]_vars

\* a call with an unknown email and a campaign id has returned false, and a
\* call with an unknown email and no campaign id too; nothing was recorded
C16_Witness ==
    \E j, k \in CallIds :
        /\ calls[j].pc = "done" /\ calls[j].op = "unsubscribe"
        /\ calls[j].email = UnknownEmail /\ calls[j].campaignId \in DOMAIN campaigns
        /\ calls[j].result = Value(FALSE)
        /\ calls[k].pc = "done" /\ calls[k].op = "unsubscribe"
        /\ calls[k].email = UnknownEmail /\ calls[k].campaignId = 0
        /\ calls[k].result = Value(FALSE)
        /\ campaignEvents = <<>>
        /\ \E c \in DOMAIN contacts : contacts[c].status = "active"

\* a processUnsubscribe call that found a contact has returned
UnsubscribeReturned(k) ==
    calls[k].pc = "done" /\ calls[k].op = "unsubscribe" /\ calls[k].contactId # 0

\* C17: a processUnsubscribe call for the email of an existing contact
\* returns true, leaves that contact 'unsubscribed', has appended exactly one
\* 'unsubscribed' event for (campaign, contact) when a campaign id was
\* supplied and none otherwise; its steps change no campaign row and no
\* other contact.
C17_UnsubscribeKnownEmail ==
    /\ [](\A k \in CallIds :
            UnsubscribeReturned(k) =>
                /\ calls[k].result = Value(TRUE)
                /\ contacts[calls[k].contactId].status = "unsubscribed"
                /\ Cardinality(EventsOfCall(k)) = IF calls[k].campaignId # 0 THEN 1 ELSE 0
                /\ \A e \in EventsOfCall(k) :
                       /\ campaignEvents[e].campaignId = calls[k].campaignId
                       /\ campaignEvents[e].contactId = calls[k].contactId
                       /\ campaignEvents[e].eventType = "unsubscribed")
    /\ [][\A k \in CallIds :
             (calls'[k] # calls[k] /\ calls'[k].op = "unsubscribe")
             => /\ campaigns' = campaigns
                /\ \A c \in DOMAIN contacts :
                       c # calls'[k].contactId => contacts'[c] = contacts[c]]_vars

\* the processUnsubscribe calls j < k were made for the same known email
Repeated(j, k) ==
    /\ j < k /\ UnsubscribeReturned(j) /\ UnsubscribeReturned(k)
    /\ calls[j].email = calls[k].email

\* C18: when processUnsubscribe is repeated for a known email, every call
\* returns true, the contact is 'unsubscribed' from the first return on, and
\* each call that supplied a campaign id has appended an 'unsubscribed'
\* event of its own: n calls, n events.
C18_RepeatedUnsubscribe ==
    \A j, k \in CallIds :
        Repeated(j, k) =>
            /\ calls[j].result = Value(TRUE) /\ calls[k].result = Value(TRUE)
            /\ contacts[calls[k].contactId].status = "unsubscribed"
            /\ Cardinality({e \in EventsOfCall(j) \cup EventsOfCall(k) :
                                campaignEvents[e].eventType = "unsubscribed"})
                   = Cardinality({i \in {j, k} : calls[i].campaignId # 0})

\* C19: nothing excludes a second sendCampaign invocation on a campaign:
\* whatever the campaign's status and whatever another invocation is doing,
\* an invocation that finds the campaign goes on to its settings, and its
\* recipients query returns the active members of the list as they are then.
C19_NoMutualExclusion ==
    [][\A p \in OverlapRunIds :
          /\ (/\ run[p].pc = "loadCampaign"
              /\ run[p].campaignId \in DOMAIN campaigns
              /\ run'[p] # run[p])
             => run'[p].pc = "loadSettings"
          /\ (run[p].pc = "resolve" /\ run'[p] # run[p])
             => run'[p].contactsInList = ContactsInList(run[p].listId)]_vars

\* two invocations on one campaign have each delivered to the same contact,
\* which has a single membership row: two delivery attempts and two 'sent'
\* events for one (campaign, contact)
C19_Witness ==
    \E p, q \in OverlapRunIds : \E c \in ContactIds :
        /\ p < q /\ run[p].campaignId = run[q].campaignId
        /\ run[p].campaignId \in DOMAIN campaigns
        /\ Cardinality({m \in DOMAIN contactListMemberships :
                            contactListMemberships[m].contactId = c}) = 1
        /\ \E a \in DOMAIN run[p].attempts :
               run[p].attempts[a].contactId = c /\ run[p].attempts[a].outcome = "ok"
        /\ \E a \in DOMAIN run[q].attempts :
               run[q].attempts[a].contactId = c /\ run[q].attempts[a].outcome = "ok"
        /\ Cardinality(PairEvents(run[p].campaignId, c, "sent")) = 2
        /\ run[p].pc = "done" /\ run[q].pc = "done"

\* C20: the event log is append-only: every step of every operation leaves
\* each event that exists in place with the same fields, and the log never
\* gets shorter.
C20_EventLogIsAppendOnly ==
    [][/\ Len(campaignEvents') >= Len(campaignEvents)
       /\ \A e \in DOMAIN campaignEvents : campaignEvents'[e] = campaignEvents[e]]_vars

\* the log holds a 'sent' and a 'bounced' event of a send and, after them,
\* an event of a tracking or unsubscribe call for a pair the send recorded
C20_Witness ==
    \E a, b, e \in DOMAIN campaignEvents :
        /\ a < e /\ b < e
        /\ campaignEvents[a].eventType = "sent" /\ campaignEvents[a].run # 0
        /\ campaignEvents[b].eventType = "bounced" /\ campaignEvents[b].run # 0
        /\ campaignEvents[e].call # 0
        /\ campaignEvents[e].campaignId = campaignEvents[a].campaignId
        /\ campaignEvents[e].contactId = campaignEvents[a].contactId

\* C21: every event names a campaign and a contact that exist (rows are
\* never deleted, so they existed when the event was inserted); the step of
\* a trackEmailOpen or trackEmailClick call whose campaign id or contact id
\* names no row adds no event, and the call returns without raising.
C21_EventsReferenceExistingRows ==
    /\ [](\A e \in DOMAIN campaignEvents :
            /\ campaignEvents[e].campaignId \in DOMAIN campaigns
            /\ campaignEvents[e].contactId \in DOMAIN contacts)
    /\ [][\A k \in CallIds :
             (/\ calls'[k] # calls[k]
              /\ calls'[k].op \in {"open", "click"}
              /\ (\/ calls'[k].campaignId \notin DOMAIN campaigns
                  \/ calls'[k].contactId \notin DOMAIN contacts))
             => /\ campaignEvents' = campaignEvents
                /\ calls'[k].pc = "done" => calls'[k].result = Void]_vars

\* a tracking call named an existing campaign and a contact that does not
\* exist, and returned; the log holds the events of a send and nothing else
C21_Witness ==
    \E k \in CallIds :
        /\ calls[k].pc = "done" /\ calls[k].op \in {"open", "click"}
        /\ calls[k].campaignId \in DOMAIN campaigns
        /\ calls[k].contactId \notin DOMAIN contacts
        /\ calls[k].result = Void
        /\ campaignEvents # <<>>
        /\ EventsOfCall(k) = {}

\* the pieces of a sequence
Pieces(content) == {content[k] : k \in DOMAIN content}

\* C22: when includeUnsubscribeLink is set, no html handed to the transport
\* contains the placeholder '[[UNSUBSCRIBE_LINK]]', and each contains the
\* unsubscribe URL of its recipient.
C22_NoPlaceholderRemains ==
    (mail.pc = "personalize" /\ mail.includeUnsubscribeLink)
    => \A r \in DOMAIN mail.html :
          /\ Placeholder \notin Pieces(mail.html[r])
          /\ UnsubscribeUrl(mail.contactsInList[r].email, mail.campaignId)
                 \in Pieces(mail.html[r])

\* the content with every '[name]' piece replaced by the text given
RECURSIVE WithName(_, _)
WithName(content, text) ==
    IF content = <<>> THEN <<>>
    ELSE (IF Head(content) \in NameTokens THEN text ELSE <<Head(content)>>)
         \o WithName(Tail(content), text)

\* C23: the base content is the body, the unsubscribe block and the footer;
\* for every recipient the content after the name replacement is the base
\* content with every '[name]' piece, in any letter case, replaced by the
\* contact's name, or by 'there' when the name is null or empty.
C23_NameReplacedEverywhere ==
    mail.pc = "personalize"
    => /\ mail.content = BaseContent(mail.body, mail.includeUnsubscribeLink,
                                     mail.defaultFooter)
       /\ \A r \in DOMAIN mail.named :
             mail.named[r] =
                 WithName(mail.content,
                          IF mail.contactsInList[r].name = <<>>
                          THEN <<Lit("there")>>
                          ELSE mail.contactsInList[r].name)

\* C24: a run that has set the campaign's status to 'sending' and has ended,
\* by returning or by raising, leaves the campaign 'sent' or 'failed', also
\* when storage calls fail.
C24_NeverLeftSending ==
    \A p \in RunIds :
        (Returned(p) /\ run[p].setSending)
        => run[p].atReturn.status \in {"sent", "failed"}

\* every storage and transport call of a run returns or rejects: a run that
\* can take a step eventually takes one
SpecFaultsFair ==
    /\ SpecFaults
    /\ \A p \in RunIds :
          WF_vars(RunStep(p) \/ MarkFailed(p) \/ StorageFault(p) \/ TransporterFault(p))

\* every run that was started ends
RunsTerminate == \A p \in RunIds : (run[p].pc # "idle") ~> Returned(p)

\* C25: the step that hands a message to the transport never does so for a
\* contact whose status is 'unsubscribed' at that moment.
C25_NoAttemptToUnsubscribed ==
    [][\A p \in RunIds :
          Len(run'[p].attempts) = Len(run[p].attempts) + 1
          => contacts[run'[p].attempts[Len(run'[p].attempts)].contactId].status
                 # "unsubscribed"]_vars

\* C26: when a processUnsubscribe(email) call returns true, no contact with
\* that email address has status 'active'.
C26_NoActiveContactWithEmail ==
    [][\A k \in CallIds :
          (/\ calls[k].pc # "done"
           /\ calls'[k].pc = "done"
           /\ calls'[k].op = "unsubscribe"
           /\ calls'[k].result = Value(TRUE))
          => \A c \in DOMAIN contacts' :
                contacts'[c].email = calls'[k].email
                => contacts'[c].status # "active"]_vars

\* C27: in one run a contact is handed to the transport at most once and has
\* at most one 'sent' or 'bounced' event.
C27_AtMostOneAttemptPerContact ==
    \A p \in RunIds : \A c \in DOMAIN contacts :
        /\ Cardinality(AttemptsTo(p, c)) <= 1
        /\ Cardinality(DeliveryEvents(p, c)) <= 1

\* C28: a processUnsubscribe call that has returned false has changed no
\* contact row and inserted no event.  Contacts are created 'active' and
\* only processUnsubscribe writes a contact's status, so with one call made
\* a contact that is not 'active' was changed by that call.
C28_FalseMeansNothingChanged ==
    \A k \in CallIds :
        (/\ calls[k].pc = "done" /\ calls[k].op = "unsubscribe"
         /\ calls[k].result = Value(FALSE) /\ OnlyCall(k))
        => /\ EventsOfCall(k) = {}
           /\ \A c \in DOMAIN contacts : contacts[c].status = "active"

\* C29: no step moves a campaign out of 'scheduled', and no step hands a
\* message of a scheduled campaign to the transport.
C29_ScheduledStaysScheduled ==
    [][/\ \A id \in DOMAIN campaigns :
             campaigns[id].status = "scheduled" => campaigns'[id].status = "scheduled"
       /\ \A p \in RunIds :
             (/\ Len(run'[p].attempts) = Len(run[p].attempts) + 1
              /\ run[p].campaignId \in DOMAIN campaigns)
             => campaigns[run[p].campaignId].status # "scheduled"]_vars

\* C30: for every campaign the number of 'opened' events does not exceed the
\* number of 'sent' events, and the open rate getCampaigns computes for a
\* sent campaign does not exceed 100.
C30_OpenedAtMostSent ==
    \A id \in DOMAIN campaigns :
        /\ EventCount(id, "opened") <= EventCount(id, "sent")
        /\ HasOpenRate(id) => OpenRate(id) <= 100

====
